---- MODULE Spec2Model ----
(***************************************************************************)
(* Job-lifecycle tracking and search coordination of the yt2radarr page    *)
(* script (src/unnamed/part_003).  Every handler is one atomic action:     *)
(* the browser runs a callback to its next await without interleaving.     *)
(* A TypeError raised inside a handler aborts it at that statement; what   *)
(* the handler assigned before stays assigned.                             *)
(***************************************************************************)
EXTENDS Integers, Sequences, FiniteSets, TLC

\* ------------------------------------------------------------------ bounds
MaxJobs == 2
MaxTime == 2
MaxPollRequests == 1
MaxTickRequests == 2
MaxCreateRequests == 1
MaxLoadJobs == 2
MaxStoreJobs == 10
MaxSearchToken == 3
MaxRadarrRequests == 3
MaxLineLen == 3
MaxLogLines == 2
MaxConsoleLineLen == 2
MaxPlaylistRequests == 3
MaxPlaylistEntries == 2

\* ------------------------------------------------------- program constants
MAX_DOWNLOAD_ENTRIES == 8

STATUS_LABELS == {"queued", "processing", "complete", "failed", "cancelled"}

CANCELLABLE_STATUSES == {"queued", "processing"}

\* lowered.includes(snippet) is tested against these
IMPORTANT_LINE_SNIPPETS ==
  {"success! video saved", "renaming downloaded file", "treating video as main video file",
   "storing video in subfolder", "created movie folder", "fetching radarr details",
   "resolved youtube format"}

NOISY_WARNING_SNIPPETS ==
  {"[youtube]", "sabr streaming", "web client https formats have been skipped",
   "web_safari client https formats have been skipped",
   "tv client https formats have been skipped"}

\* The state literal has no pendingCancellations member, so every
\* state.pendingCancellations.has/add/delete raises a TypeError.
PendingCancellationsDefined == FALSE

VARIABLES
  hasDownloadsList,      \* elements.downloadsList is an element of the page
  downloads,             \* state.downloads: sequence of job view-records
  pollers,               \* state.pollers: job id -> interval handle
  timers,                \* live interval timers [h, job, showConsole]
  pendingCancellations,  \* members of state.pendingCancellations (when defined)
  selectedJobId,         \* state.selectedJobId, 0 = null
  activeConsoleJobId,    \* state.activeConsoleJobId, 0 = null
  cards,                 \* children of elements.downloadsList
  pollRequests,          \* GET /jobs/{id} in flight, oldest first
  createRequests,        \* POST /create in flight
  loadPc,                \* loadInitialJobs: "fetching" | "done"
  cancelRequests,        \* POST /jobs/{id}/cancel in flight
  backendJobs,           \* number of job ids the backend has handed out
  now,                   \* the browser clock read by new Date()
  lastOp                 \* the handler that ran last and what it did

jobVars == <<hasDownloadsList, downloads, pollers, timers, pendingCancellations,
             selectedJobId, activeConsoleJobId, cards, pollRequests,
             createRequests, loadPc, cancelRequests, backendJobs, now, lastOp>>

\* state.youtubeSearch and state.addMovie, and the searches in flight
VARIABLES
  youtubeSearch,      \* [timeout, query, token, controller, loading, results]
  youtubeRequests,    \* /youtube/search requests in flight
  addMovie,           \* [modalOpen, searchTimeout, query, searchToken, loading, results]
  radarrRequests,     \* /radarr/search requests in flight
  radarrDispatched,   \* number of /radarr/search requests sent so far
  searchTimers        \* the debounce timers that are armed: [flow, handle, query]

searchVars == <<youtubeSearch, youtubeRequests, addMovie, radarrRequests,
                radarrDispatched, searchTimers>>

\* the output console and the log-line classifier
VARIABLES
  debugMode,     \* state.debugMode
  lastLogs,      \* state.lastLogs
  consoleDiv,    \* children of elements.consoleDiv, first child first
  classified     \* the line classified last: [line, forcedType, shown, result]

logVars == <<debugMode, lastLogs, consoleDiv, classified>>

\* the playlist preview of the extras form
VARIABLES
  playlist,           \* [mode, url, entries, loading, error]
  playlistRequests,   \* /playlist_preview requests in flight: [uid, url]
  playlistSent        \* number of /playlist_preview requests sent so far

playlistVars == <<playlist, playlistRequests, playlistSent>>

vars == <<jobVars, searchVars, logVars, playlistVars>>

\* ------------------------------------------------------------ pure helpers
Min(a, b) == IF a < b THEN a ELSE b

Max(a, b) == IF a > b THEN a ELSE b

\* parseDate: 0 stands for a missing or unparseable value (null)
parseDate(value) == IF value = 0 THEN 0 ELSE value

\* names every object literal inherits from Object.prototype: STATUS_LABELS[name]
\* is a function for them, which `!STATUS_LABELS[status]` takes for a label
InheritedKeys == {"constructor", "toString", "valueOf", "hasOwnProperty"}

normaliseStatus(raw) ==
  LET s1 == IF raw = "" THEN "queued" ELSE raw
      s2 == IF s1 = "completed" THEN "complete" ELSE s1
  IN IF s2 \in STATUS_LABELS \cup InheritedKeys THEN s2 ELSE "queued"

\* job: [id, status, started_at, updated_at, progress: [isNumber, value]]
normaliseJob(job, nowv) ==
  LET startedAt == IF parseDate(job.started_at) # 0 THEN parseDate(job.started_at) ELSE nowv
      rawUpdated == IF job.updated_at # 0 THEN job.updated_at ELSE job.started_at
      updatedAt == IF parseDate(rawUpdated) # 0 THEN parseDate(rawUpdated) ELSE startedAt
  IN [id |-> job.id,
      status |-> normaliseStatus(job.status),
      progress |-> IF job.progress.isNumber
                     THEN Max(0, Min(100, job.progress.value)) ELSE 0,
      startedAt |-> startedAt,
      updatedAt |-> updatedAt]

\* a lookup that never finds the record
IndexOfNothing(dl, id) == 0

\* state.downloads.findIndex(item => item.id === id), 0 when absent
IndexOf(dl, id) ==
  IF \E i \in 1..Len(dl) : dl[i].id = id
    THEN CHOOSE i \in 1..Len(dl) : dl[i].id = id /\ \A j \in 1..(i-1) : dl[j].id # id
    ELSE 0

InStore(dl, id) == IndexOf(dl, id) > 0

\* the merge branch of upsertDownload
\* a merge with a guard: a terminal record keeps its status
MergeEntryKeepsTerminal(existing, update, nowv) ==
  [id |-> update.id,
   status |-> IF existing.status \in {"complete", "failed", "cancelled"}
                THEN existing.status ELSE update.status,
   progress |-> update.progress,
   startedAt |-> IF update.startedAt # 0 THEN update.startedAt ELSE existing.startedAt,
   updatedAt |-> IF update.updatedAt # 0 THEN update.updatedAt ELSE nowv]

MergeEntry(existing, update, nowv) ==
  [id |-> update.id,
   status |-> update.status,
   progress |-> update.progress,
   startedAt |-> IF update.startedAt # 0 THEN update.startedAt ELSE existing.startedAt,
   updatedAt |-> IF update.updatedAt # 0 THEN update.updatedAt ELSE nowv]

\* the insert branch of upsertDownload
NewEntry(update, nowv) ==
  [id |-> update.id,
   status |-> update.status,
   progress |-> update.progress,
   startedAt |-> IF update.startedAt # 0 THEN update.startedAt ELSE nowv,
   updatedAt |-> IF update.updatedAt # 0 THEN update.updatedAt ELSE nowv]

RECURSIVE InsertDesc(_, _)
InsertDesc(s, r) ==
  IF s = <<>> THEN <<r>>
  ELSE IF Head(s).startedAt >= r.startedAt
    THEN <<Head(s)>> \o InsertDesc(Tail(s), r)
    ELSE <<r>> \o s

\* a sort that leaves the array as it is
SortSkipped(s) == s

\* state.downloads.sort by startedAt descending (Array.prototype.sort is stable)
RECURSIVE SortByStartedAt(_)
SortByStartedAt(s) ==
  IF s = <<>> THEN <<>>
  ELSE InsertDesc(SortByStartedAt(SubSeq(s, 1, Len(s) - 1)), s[Len(s)])

\* ---------------------------------------------------------- log lines
\* A log line is a sequence of tokens: " " is a run of whitespace, the
\* other tokens are words. Prefix tests look at the first token, includes()
\* at every token.
LogTokens ==
  {" ", "ERROR:", "error:", "WARNING:", "DEBUG:", "[download]", "[DOWNLOAD]",
   "[ffmpeg]", "[merger]", "[YouTube]", "Created movie folder", "x"}

\* String.prototype.toLowerCase, token by token
LowerToken(tok) ==
  CASE tok = "ERROR:" -> "error:"
    [] tok = "WARNING:" -> "warning:"
    [] tok = "DEBUG:" -> "debug:"
    [] tok = "[DOWNLOAD]" -> "[download]"
    [] tok = "[YouTube]" -> "[youtube]"
    [] tok = "Created movie folder" -> "created movie folder"
    [] OTHER -> tok

toLowerCase(s) == [i \in DOMAIN s |-> LowerToken(s[i])]

RECURSIVE trimStart(_)
trimStart(s) == IF s # <<>> /\ Head(s) = " " THEN trimStart(Tail(s)) ELSE s

RECURSIVE trimEnd(_)
trimEnd(s) ==
  IF s # <<>> /\ s[Len(s)] = " " THEN trimEnd(SubSeq(s, 1, Len(s) - 1)) ELSE s

\* String.prototype.trim
trim(s) == trimEnd(trimStart(s))

startsWith(s, tok) == s # <<>> /\ s[1] = tok

includes(s, tok) == \E i \in 1..Len(s) : s[i] = tok

\* trimmed.match(/^PREFIX\s*(.*)$/i): the prefix is there, whatever its case
PrefixMatches(trimmed, lowerPrefix) == startsWith(toLowerCase(trimmed), lowerPrefix)

\* the group (.*) of that match: what follows the prefix and the whitespace
AfterPrefix(trimmed) == trimStart(Tail(trimmed))

\* shouldDisplayLogLine with the tests in another order: snippets first
shouldDisplaySnippetsFirst(line) ==
  LET lowered == toLowerCase(trim(line))
  IN IF lowered = <<>> THEN FALSE
     ELSE IF \E snippet \in IMPORTANT_LINE_SNIPPETS : includes(lowered, snippet) THEN TRUE
     ELSE IF startsWith(lowered, "debug:") THEN FALSE
     ELSE IF startsWith(lowered, "warning:") THEN TRUE
     ELSE IF startsWith(lowered, "error:") THEN TRUE
     ELSE startsWith(lowered, "[download]") \/ startsWith(lowered, "[ffmpeg]")
            \/ startsWith(lowered, "[merger]")

shouldDisplayLogLine(line) ==
  LET lowered == toLowerCase(trim(line))
  IN IF lowered = <<>> THEN FALSE
     ELSE IF startsWith(lowered, "debug:") THEN FALSE
     ELSE IF startsWith(lowered, "warning:")
       THEN ~\E snippet \in NOISY_WARNING_SNIPPETS : includes(lowered, snippet)
     ELSE IF startsWith(lowered, "error:") THEN TRUE
     ELSE IF startsWith(lowered, "[download]") \/ startsWith(lowered, "[ffmpeg]")
               \/ startsWith(lowered, "[merger]") THEN TRUE
     ELSE \E snippet \in IMPORTANT_LINE_SNIPPETS : includes(lowered, snippet)

\* the branches of interpretLogLine for a forced type ("" stands for null)
InterpretForced(original, trimmed, forcedType) ==
  LET stripped(lowerPrefix) ==
        LET rest == IF PrefixMatches(trimmed, lowerPrefix) THEN AfterPrefix(trimmed) ELSE trimmed
        IN IF rest = <<>> THEN original ELSE rest
  IN IF forcedType = "muted" THEN [text |-> original, type |-> "muted"]
     ELSE IF forcedType = "error" THEN [text |-> stripped("error:"), type |-> "error"]
     ELSE IF forcedType = "warning" THEN [text |-> stripped("warning:"), type |-> "warning"]
     ELSE [text |-> original, type |-> IF forcedType = "" THEN "info" ELSE forcedType]

\* interpretLogLine that tests [download] before the ERROR: prefix and keeps
\* the prefix in the text
interpretLogLineLoose(rawText, forcedType) ==
  LET trimmed == trim(rawText)
  IN IF forcedType # "" THEN InterpretForced(rawText, trimmed, forcedType)
     ELSE IF includes(trimmed, "[download]") THEN [text |-> rawText, type |-> "progress"]
     ELSE IF PrefixMatches(trimmed, "error:") THEN [text |-> trimmed, type |-> "error"]
     ELSE [text |-> rawText, type |-> "info"]

interpretLogLine(rawText, forcedType) ==
  LET trimmed == trim(rawText)
      group == AfterPrefix(trimmed)
  IN IF forcedType # "" THEN InterpretForced(rawText, trimmed, forcedType)
     ELSE IF PrefixMatches(trimmed, "error:")
       THEN [text |-> IF group = <<>> THEN <<"Error">> ELSE group, type |-> "error"]
     ELSE IF PrefixMatches(trimmed, "warning:")
       THEN [text |-> IF group = <<>> THEN <<"Warning">> ELSE group, type |-> "warning"]
     ELSE IF PrefixMatches(trimmed, "debug:")
       THEN [text |-> IF group = <<>> THEN <<"Debug">> ELSE group, type |-> "debug"]
     ELSE IF startsWith(trimmed, "[download]") THEN [text |-> trimmed, type |-> "progress"]
     ELSE IF startsWith(trimmed, "[ffmpeg]") THEN [text |-> trimmed, type |-> "ffmpeg"]
     ELSE [text |-> rawText, type |-> "info"]

\* appendConsoleLine: the new line becomes the first child
appendConsoleLine(console, text, typeOverride) ==
  <<interpretLogLine(text, typeOverride)>> \o console

RECURSIVE AppendEach(_, _)
AppendEach(console, lines) ==
  IF lines = <<>> THEN console
  ELSE AppendEach(appendConsoleLine(console, Head(lines), ""), Tail(lines))

\* entries.filter(...)
FilterLines(entries, debug) ==
  SelectSeq(entries, LAMBDA line : debug \/ shouldDisplayLogLine(line))

\* renderLogLines that appends nothing when every line is filtered out
renderLogLinesBare(lines, debug) ==
  AppendEach(<<>>, FilterLines(lines, debug))

\* renderLogLines(lines): the children of the console afterwards
renderLogLines(lines, debug) ==
  LET filtered == FilterLines(lines, debug)
  IN IF filtered = <<>>
       THEN IF lines # <<>> /\ ~debug
              THEN appendConsoleLine(<<>>, <<"Verbose output hidden.">>, "muted")
              ELSE appendConsoleLine(<<>>, <<"No output yet.">>, "muted")
       ELSE AppendEach(<<>>, filtered)

\* ------------------------------------------------- the mutable page state
\* The handlers below work on one record of the mutable state and return it
\* with what happened; an action commits the record it ends with. Its field
\* lines holds the console lines the handler has added, the newest first.
World ==
  [downloads |-> downloads, pollers |-> pollers, timers |-> timers,
   pending |-> pendingCancellations, selected |-> selectedJobId,
   active |-> activeConsoleJobId, cards |-> cards, pollRequests |-> pollRequests,
   lines |-> <<>>]

Commit(w) ==
  /\ downloads' = w.downloads
  /\ pollers' = w.pollers
  /\ timers' = w.timers
  /\ pendingCancellations' = w.pending
  /\ selectedJobId' = w.selected
  /\ activeConsoleJobId' = w.active
  /\ cards' = w.cards
  /\ pollRequests' = w.pollRequests

\* the messages the handlers write to the console
PollErrorLine == <<"ERROR:", " ", "Failed to poll job">>

NotFoundLine == <<"ERROR:", " ", "Job not found or has expired.">>

LoadErrorLine == <<"ERROR:", " ", "Failed to load job history">>

SubmitErrorLine == <<"ERROR:", " ", "err.message">>

SubmittingLine == <<"Submitting request...">>

JobQueuedLine == <<"Job queued.">>

LoadingLogsLine == <<"Loading logs for job...">>

\* the line of job.logs in a poll response
JobLogsLine == <<"Created movie folder">>

\* appendConsoleLine(text, typeOverride) called by a handler
Say(w, text, typeOverride) ==
  [w EXCEPT !.lines = appendConsoleLine(@, text, typeOverride)]

\* stopJobPolling that forgets clearInterval
stopJobPollingKeepsTimer(w, jobId) ==
  IF jobId \in DOMAIN w.pollers
    THEN [w EXCEPT !.pollers = [j \in (DOMAIN w.pollers) \ {jobId} |-> w.pollers[j]]]
    ELSE w

\* clearInterval(timer); state.pollers.delete(jobId)
stopJobPolling(w, jobId) ==
  IF jobId \in DOMAIN w.pollers
    THEN [w EXCEPT !.timers = {t \in w.timers : t.h # w.pollers[jobId]},
                   !.pollers = [j \in (DOMAIN w.pollers) \ {jobId} |-> w.pollers[j]]]
    ELSE w

\* handle returned by setInterval: one no live timer and no map entry holds
FreshHandle(w) ==
  LET used == {t.h : t \in w.timers} \cup {w.pollers[j] : j \in DOMAIN w.pollers}
  IN CHOOSE h \in 1..(Cardinality(used) + 1) :
       h \notin used /\ \A g \in 1..(h - 1) : g \in used

\* pollJob up to its first await: the GET /jobs/{id} request leaves
IssuePoll(w, jobId, showConsole, notifyNotFound, origin) ==
  [w EXCEPT !.pollRequests = Append(@, [job |-> jobId, showConsole |-> showConsole,
                                        notifyNotFound |-> notifyNotFound,
                                        origin |-> origin])]

\* startJobPolling without its state.pollers.has(jobId) test
startJobPollingUnguarded(w, jobId, showConsole) ==
  LET w1 == IssuePoll(w, jobId, showConsole, FALSE, "start")
      h == FreshHandle(w1)
  IN [w1 EXCEPT !.timers = @ \cup {[h |-> h, job |-> jobId, showConsole |-> showConsole]},
                !.pollers = [j \in (DOMAIN w.pollers) \cup {jobId} |->
                               IF j = jobId THEN h ELSE w.pollers[j]]]

startJobPolling(w, jobId, showConsole) ==
  IF jobId \in DOMAIN w.pollers
    THEN w
    ELSE LET w1 == IssuePoll(w, jobId, showConsole, FALSE, "start")
             h == FreshHandle(w1)
         IN [w1 EXCEPT !.timers = @ \cup {[h |-> h, job |-> jobId, showConsole |-> showConsole]},
                       !.pollers = [j \in (DOMAIN w.pollers) \cup {jobId} |->
                                      IF j = jobId THEN h ELSE w.pollers[j]]]

\* buildDownloadItem reads state.pendingCancellations for a cancellable entry
\* a buildDownloadItem that never fails
BuildNeverThrows(entry) == FALSE

BuildThrows(entry) ==
  entry.status \in CANCELLABLE_STATUSES /\ ~PendingCancellationsDefined

CardOf(entry, pend) ==
  [id |-> entry.id, status |-> entry.status,
   cancel |-> IF entry.status \in CANCELLABLE_STATUSES
                THEN (IF entry.id \in pend THEN "Cancelling" ELSE "Cancel")
                ELSE "none"]

\* the cards appended before buildDownloadItem first throws
RECURSIVE RenderedCards(_, _)
RenderedCards(dl, pend) ==
  IF dl = <<>> THEN <<>>
  ELSE IF BuildThrows(Head(dl)) THEN <<>>
  ELSE <<CardOf(Head(dl), pend)>> \o RenderedCards(Tail(dl), pend)

renderDownloads(w) ==
  IF ~hasDownloadsList
    THEN [w |-> w, threw |-> FALSE]
    ELSE LET deselect == w.selected # 0 /\ ~InStore(w.downloads, w.selected)
             w1 == [w EXCEPT !.active = IF deselect /\ w.active = w.selected THEN 0 ELSE @,
                             !.selected = IF deselect THEN 0 ELSE @]
         IN [w |-> [w1 EXCEPT !.cards = RenderedCards(w1.downloads, w1.pending)],
             threw |-> \E i \in 1..Len(w1.downloads) : BuildThrows(w1.downloads[i])]

\* removed.forEach(entry => { stopJobPolling(entry.id); pendingCancellations.delete(entry.id) })
RECURSIVE EvictEach(_, _)
EvictEach(w, removed) ==
  IF removed = <<>> THEN [w |-> w, threw |-> FALSE]
  ELSE LET w1 == stopJobPolling(w, Head(removed).id)
       IN IF ~PendingCancellationsDefined
            THEN [w |-> w1, threw |-> TRUE]
            ELSE EvictEach([w1 EXCEPT !.pending = @ \ {Head(removed).id}], Tail(removed))

\* upsertDownload(update): [w, threw, evicted]
upsertDownload(w, update, nowv) ==
  LET index == IndexOf(w.downloads, update.id)
      stored == IF index > 0
                  THEN [w.downloads EXCEPT ![index] = MergeEntry(@, update, nowv)]
                  ELSE Append(w.downloads, NewEntry(update, nowv))
      updatedEntry == IF index > 0 THEN stored[index] ELSE stored[Len(stored)]
      terminal == updatedEntry.status \notin CANCELLABLE_STATUSES
      w1 == [w EXCEPT !.downloads = stored]
  IN IF terminal /\ ~PendingCancellationsDefined
       THEN [w |-> w1, threw |-> TRUE, evicted |-> <<>>]
       ELSE
         LET w2 == [w1 EXCEPT !.pending = IF terminal THEN @ \ {updatedEntry.id} ELSE @,
                              !.downloads = SortByStartedAt(stored)]
         IN IF Len(w2.downloads) > MAX_DOWNLOAD_ENTRIES
              THEN LET removed == SubSeq(w2.downloads, MAX_DOWNLOAD_ENTRIES + 1, Len(w2.downloads))
                       w3 == [w2 EXCEPT !.downloads = SubSeq(@, 1, MAX_DOWNLOAD_ENTRIES)]
                       ev == EvictEach(w3, removed)
                   IN IF ev.threw
                        THEN [w |-> ev.w, threw |-> TRUE, evicted |-> removed]
                        ELSE LET r == renderDownloads(ev.w)
                             IN [w |-> r.w, threw |-> r.threw, evicted |-> removed]
              ELSE LET r == renderDownloads(w2)
                   IN [w |-> r.w, threw |-> r.threw, evicted |-> <<>>]

\* a catch block that leaves the poller running
PollCatchKeepsPolling(w, jobId) ==
  LET w1 == Say(w, PollErrorLine, "error")
  IN IF PendingCancellationsDefined THEN [w1 EXCEPT !.pending = @ \ {jobId}] ELSE w1

\* a catch block that writes no line
PollCatchSilent(w, jobId) ==
  LET w1 == stopJobPolling(w, jobId)
  IN IF PendingCancellationsDefined THEN [w1 EXCEPT !.pending = @ \ {jobId}] ELSE w1

\* the catch block of pollJob: the error line, stopJobPolling, then
\* pendingCancellations.delete
PollCatch(w, jobId) ==
  LET w1 == stopJobPolling(Say(w, PollErrorLine, "error"), jobId)
  IN IF PendingCancellationsDefined THEN [w1 EXCEPT !.pending = @ \ {jobId}] ELSE w1

\* a not-found branch that deletes the record of the job
PollNotFoundForgets(w, jobId, showConsole, notifyNotFound) ==
  [w |-> [stopJobPolling(w, jobId) EXCEPT
            !.downloads = SelectSeq(@, LAMBDA entry : entry.id # jobId)],
   caught |-> FALSE]

\* pollJob after its awaits, for a response without a job record
PollNotFound(w, jobId, showConsole, notifyNotFound) ==
  LET w0 == IF (showConsole \/ w.active = jobId) /\ notifyNotFound
              THEN [w EXCEPT !.lines = renderLogLines(<<NotFoundLine>>, debugMode)]
              ELSE w
      w1 == [w0 EXCEPT !.active = IF @ = jobId THEN 0 ELSE @]
      r == IF w1.selected = jobId
             THEN renderDownloads([w1 EXCEPT !.selected = 0])
             ELSE [w |-> w1, threw |-> FALSE]
      w2 == stopJobPolling(r.w, jobId)
  IN IF r.threw THEN [w |-> PollCatch(r.w, jobId), caught |-> TRUE]
     ELSE IF ~PendingCancellationsDefined THEN [w |-> PollCatch(w2, jobId), caught |-> TRUE]
     ELSE [w |-> [w2 EXCEPT !.pending = @ \ {jobId}], caught |-> FALSE]

\* pollJob after its awaits, for a response carrying a job record
\* const showConsole = Boolean(options.showConsole) || state.activeConsoleJobId === jobId
ShowsConsole(w, jobId, showConsole) == showConsole \/ w.active = jobId

\* a 200 response with a job record; job.logs is the array [JobLogsLine]
PollSnapshot(w, jobId, job, nowv, showConsole) ==
  LET u == upsertDownload(w, normaliseJob(job, nowv), nowv)
      rawTerminal == job.status \in {"complete", "failed", "cancelled"}
      shown == IF ShowsConsole(u.w, jobId, showConsole)
                 THEN [u.w EXCEPT !.lines = renderLogLines(<<JobLogsLine>>, debugMode)]
                 ELSE u.w
  IN IF u.threw
       THEN [w |-> PollCatch(u.w, jobId), caught |-> TRUE, evicted |-> u.evicted]
     ELSE IF rawTerminal /\ ~PendingCancellationsDefined
       THEN [w |-> PollCatch(shown, jobId), caught |-> TRUE, evicted |-> u.evicted]
     ELSE IF rawTerminal
       THEN [w |-> stopJobPolling([shown EXCEPT !.pending = @ \ {jobId}], jobId),
             caught |-> FALSE, evicted |-> u.evicted]
     ELSE [w |-> shown, caught |-> FALSE, evicted |-> u.evicted]

\* ---------------------------------------------------------------- inputs
\* status values a backend job can carry: "" stands for a missing status and
\* "paused" for one STATUS_LABELS does not know.  "failed" is left out: every
\* line that tests it (1381, 1415, 1508) tests "cancelled" beside it.
RawStatuses ==
  {"", "queued", "processing", "complete", "completed", "cancelled", "paused"}

StoreStatuses == {"queued", "complete"}

LoadStatuses == {"queued", "complete"}

StartStamps == 0..MaxTime

\* job records a response can carry
Jobs(ids, statuses, starts) ==
  [id : ids, status : statuses, started_at : starts, updated_at : {0},
   progress : {[isNumber |-> TRUE, value |-> 0]}]

\* what a response says of the progress: no number, 40, 100
FlowProgress ==
  {[isNumber |-> FALSE, value |-> 0], [isNumber |-> TRUE, value |-> 40],
   [isNumber |-> TRUE, value |-> 100]}

FlowStatuses == {"queued", "processing", "complete"}

\* job records of one submission, with every timestamp the backend may send
FlowJobs(ids, statuses) ==
  [id : ids, status : statuses, started_at : StartStamps, updated_at : StartStamps,
   progress : FlowProgress]

SeqsUpTo(S, n) == UNION {[1..k -> S] : k \in 0..n}

RemoveAt(s, k) == SubSeq(s, 1, k - 1) \o SubSeq(s, k + 1, Len(s))

\* what a handler did: the records it evicted, the ids whose poller it
\* removed, the console lines it added
\* the status of the record of a job, "" when the store has none
StatusOf(store, jobId) ==
  IF InStore(store, jobId) THEN store[IndexOf(store, jobId)].status ELSE ""

\* what a handler did
Did(op, id, threw, evicted, note, w) ==
  [op |-> op, id |-> id, threw |-> threw, evicted |-> evicted, note |-> note,
   stopped |-> (DOMAIN pollers) \ (DOMAIN w.pollers), lines |-> w.lines,
   before |-> "", origin |-> ""]

\* what the form holds at submit: yturl is empty, not a YouTube URL, or one
Forms ==
  [yturl : {"", "example.com/v", "youtu.be/v"}, movieId : {"", "12"},
   extra : BOOLEAN, extra_name : {"", "Teaser"}]

\* the rules of the submit handler, in its order
ValidationErrors(form) ==
  (IF form.yturl = "" THEN <<"YouTube URL is required.">>
   ELSE IF form.yturl # "youtu.be/v" THEN <<"Please enter a valid YouTube URL.">>
   ELSE <<>>)
  \o (IF form.movieId = "" THEN <<"Please select a valid movie from the list.">> ELSE <<>>)
  \o (IF form.extra /\ form.extra_name = "" THEN <<"Please provide an extra name.">> ELSE <<>>)

ValidForms == {form \in Forms : ValidationErrors(form) = <<>>}

\* a loop that stops after the first message
SayFirst(w, messages) ==
  IF messages = <<>> THEN w
  ELSE Say(w, <<"ERROR:", " ", Head(messages)>>, "error")

\* errors.forEach(message => appendConsoleLine(`ERROR: ${message}`, 'error'))
RECURSIVE SayEach(_, _)
SayEach(w, messages) ==
  IF messages = <<>> THEN w
  ELSE SayEach(Say(w, <<"ERROR:", " ", Head(messages)>>, "error"), Tail(messages))

\* a line that waits to be classified
Unclassified(line, forcedType) ==
  [line |-> line, forcedType |-> forcedType, done |-> FALSE, shown |-> FALSE,
   result |-> [text |-> <<>>, type |-> ""]]

\* --------------------------------------------------------------- the page
\* the page after DOMContentLoaded, before loadInitialJobs is answered
InitPage ==
  /\ hasDownloadsList \in BOOLEAN
  /\ downloads = <<>>
  /\ pollers = <<>>
  /\ timers = {}
  /\ pendingCancellations = {}
  /\ selectedJobId = 0
  /\ activeConsoleJobId = 0
  /\ cards = <<>>
  /\ pollRequests = <<>>
  /\ createRequests = 0
  /\ loadPc = "fetching"
  /\ cancelRequests = {}
  /\ backendJobs = 0
  /\ now = 1
  /\ youtubeSearch = [timeout |-> 0, query |-> "", token |-> 0, controller |-> 0,
                      loading |-> FALSE, results |-> 0]
  /\ youtubeRequests = {}
  /\ addMovie = [modalOpen |-> FALSE, searchTimeout |-> 0, query |-> "", searchToken |-> 0,
                 loading |-> FALSE, results |-> 0]
  /\ radarrRequests = {}
  /\ radarrDispatched = 0
  /\ searchTimers = {}
  /\ playlist = [mode |-> "single", url |-> "", entries |-> 0, loading |-> FALSE,
                 error |-> FALSE]
  /\ playlistRequests = {}
  /\ playlistSent = 0
  /\ debugMode = FALSE
  /\ lastLogs = <<>>
  /\ consoleDiv = <<>>
  /\ lastOp = [op |-> "init", id |-> 0, threw |-> FALSE, evicted |-> <<>>, note |-> "",
               stopped |-> {}, lines |-> <<>>, before |-> "", origin |-> ""]

Init == InitPage /\ classified = Unclassified(<<>>, "")

\* jobs.forEach(job => { upsertDownload(normaliseJob(job)); startJobPolling(...) })
RECURSIVE LoadEach(_, _, _, _)
LoadEach(w, jobs, nowv, evicted) ==
  IF jobs = <<>> THEN [w |-> w, threw |-> FALSE, evicted |-> evicted]
  ELSE LET entry == normaliseJob(Head(jobs), nowv)
           u == upsertDownload(w, entry, nowv)
       IN IF u.threw
            THEN [w |-> u.w, threw |-> TRUE, evicted |-> evicted \o u.evicted]
            ELSE LoadEach(IF entry.status \in CANCELLABLE_STATUSES
                            THEN startJobPolling(u.w, entry.id, FALSE) ELSE u.w,
                          Tail(jobs), nowv, evicted \o u.evicted)

\* loadInitialJobs after GET /jobs answered with a job list
LoadInitialJobs(jobs) ==
  /\ loadPc = "fetching"
  /\ \A i \in 1..Len(jobs) : jobs[i].id = i
  /\ \E r \in {LoadEach(World, jobs, now, <<>>)} :
        /\ Len(r.w.pollRequests) <= MaxPollRequests
        /\ Commit(r.w)
        /\ lastOp' = Did("load", 0, r.threw, r.evicted, "",
                         IF r.threw THEN Say(r.w, LoadErrorLine, "error") ELSE r.w)
  /\ loadPc' = "done"
  /\ backendJobs' = Max(backendJobs, Len(jobs))
  /\ UNCHANGED searchVars
  /\ UNCHANGED playlistVars
  /\ UNCHANGED logVars
  /\ UNCHANGED <<hasDownloadsList, createRequests, cancelRequests, now>>

\* loadInitialJobs after GET /jobs failed
LoadInitialJobsFails ==
  /\ loadPc = "fetching"
  /\ loadPc' = "done"
  /\ lastOp' = Did("load", 0, TRUE, <<>>, "error", Say(World, LoadErrorLine, "error"))
  /\ UNCHANGED searchVars
  /\ UNCHANGED playlistVars
  /\ UNCHANGED logVars
  /\ UNCHANGED <<hasDownloadsList, downloads, pollers, timers, pendingCancellations,
                 selectedJobId, activeConsoleJobId, cards, pollRequests,
                 createRequests, cancelRequests, backendJobs, now>>

\* the submit handler up to its return or its await: the console is reset,
\* the form is validated, POST /create leaves when no rule failed
Submit(form) ==
  /\ \E w1 \in {SayEach(Say(World, SubmittingLine, ""), ValidationErrors(form))} :
       IF ValidationErrors(form) # <<>>
         THEN /\ lastOp' = Did("submit", 0, FALSE, <<>>, "invalid", w1)
              /\ UNCHANGED createRequests
         ELSE /\ createRequests < MaxCreateRequests
              /\ createRequests' = createRequests + 1
              /\ lastOp' = Did("submit", 0, FALSE, <<>>, "sent", w1)
  /\ UNCHANGED searchVars
  /\ UNCHANGED playlistVars
  /\ UNCHANGED logVars
  /\ UNCHANGED <<hasDownloadsList, downloads, pollers, timers, pendingCancellations,
                 selectedJobId, activeConsoleJobId, cards, pollRequests,
                 loadPc, cancelRequests, backendJobs, now>>

\* the submit handler after POST /create answered with a job
CreateResponse(job) ==
  /\ createRequests > 0
  /\ job.id <= backendJobs + 1
  /\ \E u \in {upsertDownload([World EXCEPT !.lines = renderLogLines(<<JobQueuedLine>>, debugMode)],
                                normaliseJob(job, now), now)} :
     \E w1 \in {IF u.threw THEN Say(u.w, SubmitErrorLine, "error")
                ELSE startJobPolling(u.w, job.id, TRUE)} :
     LET polling == job.id \in DOMAIN u.w.pollers
     IN /\ Len(w1.pollRequests) <= MaxPollRequests
        /\ Commit(w1)
        /\ lastOp' = Did("create", job.id, u.threw, u.evicted,
                         IF u.threw THEN "threw"
                         ELSE IF polling THEN "already" ELSE "started", w1)
  /\ createRequests' = createRequests - 1
  /\ backendJobs' = Max(backendJobs, job.id)
  /\ UNCHANGED searchVars
  /\ UNCHANGED playlistVars
  /\ UNCHANGED logVars
  /\ UNCHANGED <<hasDownloadsList, loadPc, cancelRequests, now>>

\* the submit handler after POST /create failed or carried no job
CreateFails ==
  /\ createRequests > 0
  /\ createRequests' = createRequests - 1
  /\ lastOp' = Did("create", 0, TRUE, <<>>, "error", Say(World, SubmitErrorLine, "error"))
  /\ UNCHANGED searchVars
  /\ UNCHANGED playlistVars
  /\ UNCHANGED logVars
  /\ UNCHANGED <<hasDownloadsList, downloads, pollers, timers, pendingCancellations,
                 selectedJobId, activeConsoleJobId, cards, pollRequests,
                 loadPc, cancelRequests, backendJobs, now>>

\* an interval timer fires while fewer than cap requests are in flight:
\* pollJob(jobId, options) up to its await
TickWithin(t, cap) ==
  /\ t \in timers
  /\ Len(pollRequests) < cap
  /\ \E w1 \in {IssuePoll(World, t.job, t.showConsole, FALSE, "tick")} : Commit(w1)
  /\ lastOp' = Did("tick", t.job, FALSE, <<>>, "", World)
  /\ UNCHANGED searchVars
  /\ UNCHANGED playlistVars
  /\ UNCHANGED logVars
  /\ UNCHANGED <<hasDownloadsList, createRequests, loadPc, cancelRequests, backendJobs, now>>

Tick(t) == TickWithin(t, MaxPollRequests)

\* pollJob: fetch rejected, the response was not ok or its body was not JSON
PollFails(k) ==
  /\ k \in 1..Len(pollRequests)
  /\ \E w1 \in {PollCatch([World EXCEPT !.pollRequests = RemoveAt(@, k)], pollRequests[k].job)} :
     LET req == pollRequests[k]
     IN /\ Commit(w1)
        /\ lastOp' = Did("poll", req.job, TRUE, <<>>, "error", w1)
  /\ UNCHANGED searchVars
  /\ UNCHANGED playlistVars
  /\ UNCHANGED logVars
  /\ UNCHANGED <<hasDownloadsList, createRequests, loadPc, cancelRequests, backendJobs, now>>

\* pollJob: the response carries no job
PollNotFoundResponse(k) ==
  /\ k \in 1..Len(pollRequests)
  /\ \E r \in {PollNotFound([World EXCEPT !.pollRequests = RemoveAt(@, k)], pollRequests[k].job,
                             pollRequests[k].showConsole, pollRequests[k].notifyNotFound)} :
     LET req == pollRequests[k]
     IN /\ Commit(r.w)
        /\ lastOp' = Did("poll", req.job, r.caught, <<>>, "notfound", r.w)
  /\ UNCHANGED searchVars
  /\ UNCHANGED playlistVars
  /\ UNCHANGED logVars
  /\ UNCHANGED <<hasDownloadsList, createRequests, loadPc, cancelRequests, backendJobs, now>>

\* pollJob: the response carries the job
\* traced: lastOp also keeps the status the record had before the response and
\* the call that sent the request
PollJobResponseTraced(k, job, traced) ==
  /\ k \in 1..Len(pollRequests)
  /\ job.id = pollRequests[k].job
  /\ \E r \in {PollSnapshot([World EXCEPT !.pollRequests = RemoveAt(@, k)],
                              pollRequests[k].job, job, now,
                              pollRequests[k].showConsole)} :
     LET req == pollRequests[k]
     IN /\ Commit(r.w)
        /\ lastOp' = [Did("poll", req.job, r.caught, r.evicted, job.status, r.w)
                       EXCEPT !.before = IF traced THEN StatusOf(downloads, req.job) ELSE "",
                              !.origin = IF traced THEN req.origin ELSE ""]
  /\ UNCHANGED searchVars
  /\ UNCHANGED playlistVars
  /\ UNCHANGED logVars
  /\ UNCHANGED <<hasDownloadsList, createRequests, loadPc, cancelRequests, backendJobs, now>>

PollJobResponse(k, job) == PollJobResponseTraced(k, job, FALSE)

\* a click or Enter/Space on a rendered card
activateDownloadItem(jobId) ==
  /\ hasDownloadsList
  /\ \E i \in 1..Len(cards) : cards[i].id = jobId
  /\ \E r \in {renderDownloads([World EXCEPT !.selected = jobId, !.active = jobId])} :
     \E w1 \in {IF r.threw THEN r.w
                ELSE IssuePoll(IF activeConsoleJobId # jobId
                                 THEN Say(r.w, LoadingLogsLine, "") ELSE r.w,
                               jobId, TRUE, TRUE, "activate")} :
        /\ Len(w1.pollRequests) <= MaxPollRequests
        /\ Commit(w1)
        /\ lastOp' = Did("activate", jobId, r.threw, <<>>, "", w1)
  /\ UNCHANGED searchVars
  /\ UNCHANGED playlistVars
  /\ UNCHANGED logVars
  /\ UNCHANGED <<hasDownloadsList, createRequests, loadPc, cancelRequests, backendJobs, now>>

\* cancelJob(jobId) for a job the list offers a cancel control for (the
\* condition buildDownloadItem tests before it builds the button)
cancelJob(jobId) ==
  /\ hasDownloadsList
  /\ InStore(downloads, jobId)
  /\ downloads[IndexOf(downloads, jobId)].status \in CANCELLABLE_STATUSES
  /\ IF ~PendingCancellationsDefined
       THEN /\ lastOp' = Did("cancelJob", jobId, TRUE, <<>>, "", World)
            /\ UNCHANGED <<downloads, pollers, timers, pendingCancellations, selectedJobId,
                           activeConsoleJobId, cards, pollRequests, cancelRequests>>
       ELSE IF jobId \in pendingCancellations
         THEN /\ lastOp' = Did("cancelJob", jobId, FALSE, <<>>, "pending", World)
              /\ UNCHANGED <<downloads, pollers, timers, pendingCancellations, selectedJobId,
                             activeConsoleJobId, cards, pollRequests, cancelRequests>>
         ELSE \E r \in {renderDownloads([World EXCEPT !.pending = @ \cup {jobId}])} :
                 /\ Commit(r.w)
                 /\ cancelRequests' = cancelRequests \cup {jobId}
                 /\ lastOp' = Did("cancelJob", jobId, FALSE, <<>>, "sent", r.w)
  /\ UNCHANGED searchVars
  /\ UNCHANGED playlistVars
  /\ UNCHANGED logVars
  /\ UNCHANGED <<hasDownloadsList, createRequests, loadPc, backendJobs, now>>

\* time passes on the browser clock
AdvanceClock ==
  /\ now < MaxTime
  /\ now' = now + 1
  /\ UNCHANGED searchVars
  /\ UNCHANGED playlistVars
  /\ UNCHANGED logVars
  /\ UNCHANGED <<hasDownloadsList, downloads, pollers, timers, pendingCancellations,
                 selectedJobId, activeConsoleJobId, cards, pollRequests,
                 createRequests, loadPc, cancelRequests, backendJobs, lastOp>>

Next ==
  \/ \E jobs \in SeqsUpTo(Jobs(1..MaxLoadJobs, LoadStatuses, {0}), MaxLoadJobs) :
       LoadInitialJobs(jobs)
  \/ LoadInitialJobsFails
  \/ \E form \in ValidForms : Submit(form)
  \/ \E job \in Jobs(1..MaxJobs, RawStatuses, StartStamps) : CreateResponse(job)
  \/ CreateFails
  \/ \E t \in timers : Tick(t)
  \/ \E k \in 1..Len(pollRequests) : PollFails(k)
  \/ \E k \in 1..Len(pollRequests) : PollNotFoundResponse(k)
  \/ \E k \in 1..Len(pollRequests) :
       \E job \in Jobs({pollRequests[k].job}, RawStatuses, StartStamps) : PollJobResponse(k, job)
  \/ \E id \in 1..MaxJobs : activateDownloadItem(id)
  \/ \E id \in 1..MaxJobs : cancelJob(id)
  \/ AdvanceClock

Spec == Init /\ [][Next]_vars

\* One submission from the form to its last poll: any form contents, the
\* job the backend creates is job 1 and starts queued.
NextFlow ==
  \/ \E form \in Forms : Submit(form)
  \/ \E job \in FlowJobs({1}, {"queued"}) : CreateResponse(job)
  \/ CreateFails
  \/ \E t \in timers : Tick(t)
  \/ \E k \in 1..Len(pollRequests) : PollFails(k)
  \/ \E k \in 1..Len(pollRequests) : PollNotFoundResponse(k)
  \/ \E k \in 1..Len(pollRequests) :
       \E job \in FlowJobs({pollRequests[k].job}, FlowStatuses) : PollJobResponse(k, job)
  \/ AdvanceClock

SpecFlow == Init /\ [][NextFlow]_vars

\* The pollers of the jobs found at page load, with room for the request of
\* a tick next to one that has not been answered.
NextPoll ==
  \/ \E jobs \in SeqsUpTo(Jobs(1..MaxLoadJobs, LoadStatuses, {0}), MaxLoadJobs) :
       LoadInitialJobs(jobs)
  \/ LoadInitialJobsFails
  \/ \E t \in timers : TickWithin(t, MaxTickRequests)
  \/ \E k \in 1..Len(pollRequests) : PollFails(k)
  \/ \E k \in 1..Len(pollRequests) : PollNotFoundResponse(k)
  \/ \E k \in 1..Len(pollRequests) :
       \E job \in Jobs({pollRequests[k].job}, RawStatuses, StartStamps) :
         PollJobResponseTraced(k, job, TRUE)
  \/ AdvanceClock

SpecPoll == Init /\ [][NextPoll]_vars

\* The store under load: the backend numbers its jobs in creation order and
\* stamps job n with started_at n; create responses are queued or complete.
NextStore ==
  \/ LoadInitialJobsFails
  \/ \E form \in ValidForms : Submit(form)
  \/ \E job \in Jobs({backendJobs + 1} \cap (1..MaxStoreJobs), StoreStatuses, {backendJobs + 1}) :
       CreateResponse(job)
  \/ \E k \in 1..Len(pollRequests) :
       \E job \in Jobs({pollRequests[k].job}, {"queued"}, {pollRequests[k].job}) :
         PollJobResponse(k, job)
  \/ \E k \in 1..Len(pollRequests) : PollFails(k)
  \/ \E k \in 1..Len(pollRequests) : PollNotFoundResponse(k)
  \/ \E id \in 1..MaxStoreJobs : cancelJob(id)

SpecStore == Init /\ [][NextStore]_vars

\* ----------------------------------------------------------- video search
\* a query is shorter than the minimum length of its search box, or not
QueryKinds == {"short", "long"}

\* abortYouTubeSearch: abort the request that owns the controller. The
\* controller is named by the token of its request, 0 for null.
abortYouTubeSearch(ys, reqs) ==
  [ys |-> [ys EXCEPT !.controller = 0],
   reqs |-> {IF r.token = ys.controller THEN [r EXCEPT !.aborted = TRUE] ELSE r : r \in reqs}]

\* performYouTubeSearch up to its first await; AbortController is defined
performYouTubeSearch(ys, reqs, query, token) ==
  IF query = "short"
    THEN [ys |-> [ys EXCEPT !.results = 0], reqs |-> reqs]
    ELSE LET a == abortYouTubeSearch(ys, reqs)
         IN [ys |-> [a.ys EXCEPT !.loading = TRUE, !.controller = token],
             reqs |-> a.reqs \cup {[token |-> token, phase |-> "fetching", aborted |-> FALSE]}]

\* the finally block of performYouTubeSearch
YouTubeSearchFinally(ys, token) ==
  IF token = ys.token THEN [ys EXCEPT !.loading = FALSE, !.controller = 0] ELSE ys

\* the catch block of performYouTubeSearch, then the finally block
YouTubeSearchCatch(ys, token, isAbort) ==
  IF token # ys.token
    THEN ys
    ELSE YouTubeSearchFinally(IF isAbort THEN ys ELSE [ys EXCEPT !.results = 0], token)

\* the armed debounce timers of one search flow
DebounceTimers(tm, flow) == {t \in tm : t.flow = flow}

\* setTimeout returns a handle that no armed timer of the flow has
FreshTimeout(tm, flow) ==
  CHOOSE h \in 1..(Cardinality(tm) + 1) :
    /\ \A t \in DebounceTimers(tm, flow) : t.handle # h
    /\ \A g \in 1..(h - 1) : \E t \in DebounceTimers(tm, flow) : t.handle = g

setTimeout(tm, flow, handle, query) ==
  tm \cup {[flow |-> flow, handle |-> handle, query |-> query]}

clearTimeout(tm, flow, handle) ==
  {t \in tm : t.flow # flow \/ t.handle # handle}

\* a clearYouTubeSearchTimer that forgets the handle and leaves the timer armed
keepYouTubeSearchTimer(ys, tm) ==
  [ys |-> [ys EXCEPT !.timeout = 0], tm |-> tm]

clearYouTubeSearchTimer(ys, tm) ==
  IF ys.timeout # 0
    THEN [ys |-> [ys EXCEPT !.timeout = 0], tm |-> clearTimeout(tm, "youtube", ys.timeout)]
    ELSE [ys |-> ys, tm |-> tm]

\* youtubeSearch.query is the text the call read from the search box
scheduleYouTubeSearch(immediate, query) ==
  /\ youtubeSearch.token < MaxSearchToken
  /\ \E c \in {clearYouTubeSearchTimer([youtubeSearch EXCEPT !.query = query], searchTimers)} :
       IF immediate
         THEN \E r \in {performYouTubeSearch([c.ys EXCEPT !.token = @ + 1],
                                            youtubeRequests, query, c.ys.token + 1)} :
                /\ youtubeSearch' = r.ys
                /\ youtubeRequests' = r.reqs
                /\ searchTimers' = c.tm
         ELSE \E h \in {FreshTimeout(c.tm, "youtube")} :
                /\ youtubeSearch' = [c.ys EXCEPT !.timeout = h]
                /\ searchTimers' = setTimeout(c.tm, "youtube", h, query)
                /\ UNCHANGED youtubeRequests
  /\ UNCHANGED <<addMovie, radarrRequests, radarrDispatched>>
  /\ UNCHANGED jobVars
  /\ UNCHANGED playlistVars
  /\ UNCHANGED logVars

\* the debounce callback of scheduleYouTubeSearch
YouTubeSearchTimerFires(t) ==
  /\ t \in DebounceTimers(searchTimers, "youtube")
  /\ youtubeSearch.token < MaxSearchToken
  /\ searchTimers' = searchTimers \ {t}
  /\ \E r \in {performYouTubeSearch(
                 [youtubeSearch EXCEPT !.timeout = 0, !.token = @ + 1],
                 youtubeRequests, t.query, youtubeSearch.token + 1)} :
       /\ youtubeSearch' = r.ys
       /\ youtubeRequests' = r.reqs
  /\ UNCHANGED <<addMovie, radarrRequests, radarrDispatched>>
  /\ UNCHANGED jobVars
  /\ UNCHANGED playlistVars
  /\ UNCHANGED logVars

\* fetch resolves: the token test, the response.ok test, then response.json()
YouTubeFetchResolves(r, ok) ==
  /\ r \in youtubeRequests
  /\ r.phase = "fetching"
  /\ ~r.aborted
  /\ IF r.token # youtubeSearch.token
       THEN /\ youtubeRequests' = youtubeRequests \ {r}
            /\ UNCHANGED youtubeSearch
       ELSE IF ~ok
         THEN /\ youtubeRequests' = youtubeRequests \ {r}
              /\ youtubeSearch' = YouTubeSearchCatch(youtubeSearch, r.token, FALSE)
         ELSE /\ youtubeRequests' = (youtubeRequests \ {r}) \cup {[r EXCEPT !.phase = "parsing"]}
              /\ UNCHANGED youtubeSearch
  /\ UNCHANGED <<addMovie, radarrRequests, radarrDispatched, searchTimers>>
  /\ UNCHANGED jobVars
  /\ UNCHANGED playlistVars
  /\ UNCHANGED logVars

\* fetch rejects: AbortError for an aborted request, a network error otherwise
YouTubeFetchRejects(r) ==
  /\ r \in youtubeRequests
  /\ r.phase = "fetching"
  /\ youtubeRequests' = youtubeRequests \ {r}
  /\ youtubeSearch' = YouTubeSearchCatch(youtubeSearch, r.token, r.aborted)
  /\ UNCHANGED <<addMovie, radarrRequests, radarrDispatched, searchTimers>>
  /\ UNCHANGED jobVars
  /\ UNCHANGED playlistVars
  /\ UNCHANGED logVars

\* response.json() resolves: the results are stored, then the finally block
YouTubeJsonResolves(r) ==
  /\ r \in youtubeRequests
  /\ r.phase = "parsing"
  /\ ~r.aborted
  /\ youtubeRequests' = youtubeRequests \ {r}
  /\ youtubeSearch' = YouTubeSearchFinally([youtubeSearch EXCEPT !.results = r.token], r.token)
  /\ UNCHANGED <<addMovie, radarrRequests, radarrDispatched, searchTimers>>
  /\ UNCHANGED jobVars
  /\ UNCHANGED playlistVars
  /\ UNCHANGED logVars

\* response.json() rejects: the body was aborted or is not JSON
YouTubeJsonRejects(r) ==
  /\ r \in youtubeRequests
  /\ r.phase = "parsing"
  /\ youtubeRequests' = youtubeRequests \ {r}
  /\ youtubeSearch' = YouTubeSearchCatch(youtubeSearch, r.token, r.aborted)
  /\ UNCHANGED <<addMovie, radarrRequests, radarrDispatched, searchTimers>>
  /\ UNCHANGED jobVars
  /\ UNCHANGED playlistVars
  /\ UNCHANGED logVars

\* the URL box was emptied
handleYouTubeUrlInputChange ==
  /\ youtubeSearch.results # 0
  /\ youtubeSearch' = [youtubeSearch EXCEPT !.results = 0]
  /\ UNCHANGED <<youtubeRequests, addMovie, radarrRequests, radarrDispatched, searchTimers>>
  /\ UNCHANGED jobVars
  /\ UNCHANGED playlistVars
  /\ UNCHANGED logVars

\* --------------------------------------------------------- catalog search
\* a clearAddMovieSearchTimer that forgets the handle and leaves the timer armed
keepAddMovieSearchTimer(am, tm) ==
  [am |-> [am EXCEPT !.searchTimeout = 0], tm |-> tm]

clearAddMovieSearchTimer(am, tm) ==
  IF am.searchTimeout # 0
    THEN [am |-> [am EXCEPT !.searchTimeout = 0],
          tm |-> clearTimeout(tm, "radarr", am.searchTimeout)]
    ELSE [am |-> am, tm |-> tm]

resetAddMovieState(am, tm) ==
  LET c == clearAddMovieSearchTimer(am, tm)
  IN [am |-> [c.am EXCEPT !.loading = FALSE, !.results = 0, !.query = ""], tm |-> c.tm]

\* performAddMovieSearch up to its first await
performAddMovieSearch(am, reqs, sent) ==
  [am |-> [am EXCEPT !.searchToken = @ + 1, !.loading = TRUE],
   reqs |-> reqs \cup {[uid |-> sent + 1, token |-> am.searchToken + 1]},
   sent |-> sent + 1]

SearchScheduled(am, tm, reqs, sent, immediate, query) ==
  LET c == clearAddMovieSearchTimer([am EXCEPT !.query = query], tm)
  IN IF query = "short"
       THEN LET r == resetAddMovieState(c.am, c.tm)
            IN [am |-> r.am, tm |-> r.tm, reqs |-> reqs, sent |-> sent]
       ELSE IF immediate
         THEN LET p == performAddMovieSearch(c.am, reqs, sent)
              IN [am |-> p.am, tm |-> c.tm, reqs |-> p.reqs, sent |-> p.sent]
         ELSE LET h == FreshTimeout(c.tm, "radarr")
              IN [am |-> [c.am EXCEPT !.searchTimeout = h],
                  tm |-> setTimeout(c.tm, "radarr", h, query),
                  reqs |-> reqs, sent |-> sent]

CommitAddMovie(r) ==
  /\ addMovie' = r.am
  /\ searchTimers' = r.tm
  /\ radarrRequests' = r.reqs
  /\ radarrDispatched' = r.sent

\* the click handler of movieNotFoundButton; the open modal covers that button
openAddMovieModal(initialQuery) ==
  /\ ~addMovie.modalOpen
  /\ radarrDispatched < MaxRadarrRequests
  /\ \E r1 \in {resetAddMovieState([addMovie EXCEPT !.modalOpen = TRUE, !.searchToken = 0],
                                    searchTimers)} :
       IF initialQuery = "long"
         THEN CommitAddMovie(SearchScheduled(r1.am, r1.tm, radarrRequests, radarrDispatched,
                                             TRUE, "long"))
         ELSE CommitAddMovie([am |-> r1.am, tm |-> r1.tm, reqs |-> radarrRequests,
                              sent |-> radarrDispatched])
  /\ UNCHANGED <<youtubeSearch, youtubeRequests>>
  /\ UNCHANGED jobVars
  /\ UNCHANGED playlistVars
  /\ UNCHANGED logVars

closeAddMovieModal ==
  /\ addMovie.modalOpen
  /\ \E r \in {resetAddMovieState(addMovie, searchTimers)} :
       /\ addMovie' = [r.am EXCEPT !.modalOpen = FALSE]
       /\ searchTimers' = r.tm
  /\ UNCHANGED <<youtubeSearch, youtubeRequests, radarrRequests, radarrDispatched>>
  /\ UNCHANGED jobVars
  /\ UNCHANGED playlistVars
  /\ UNCHANGED logVars

\* input, Enter and the search button of the modal, which show while it is open
scheduleAddMovieSearch(immediate, query) ==
  /\ addMovie.modalOpen
  /\ radarrDispatched < MaxRadarrRequests
  /\ CommitAddMovie(SearchScheduled(addMovie, searchTimers, radarrRequests, radarrDispatched,
                                    immediate, query))
  /\ UNCHANGED <<youtubeSearch, youtubeRequests>>
  /\ UNCHANGED jobVars
  /\ UNCHANGED playlistVars
  /\ UNCHANGED logVars

\* the debounce callback of scheduleAddMovieSearch; it leaves the handle set
AddMovieSearchTimerFires(t) ==
  /\ t \in DebounceTimers(searchTimers, "radarr")
  /\ radarrDispatched < MaxRadarrRequests
  /\ \E p \in {performAddMovieSearch(addMovie, radarrRequests, radarrDispatched)} :
       CommitAddMovie([am |-> p.am, tm |-> searchTimers \ {t}, reqs |-> p.reqs,
                       sent |-> p.sent])
  /\ UNCHANGED <<youtubeSearch, youtubeRequests>>
  /\ UNCHANGED jobVars
  /\ UNCHANGED playlistVars
  /\ UNCHANGED logVars

\* fetch and response.json() have both settled
AddMovieSearchResponse(r, ok) ==
  /\ r \in radarrRequests
  /\ radarrRequests' = radarrRequests \ {r}
  /\ addMovie' = IF r.token # addMovie.searchToken
                   THEN addMovie
                   ELSE [addMovie EXCEPT !.results = IF ok THEN r.uid ELSE 0,
                                         !.loading = FALSE]
  /\ UNCHANGED <<youtubeSearch, youtubeRequests, radarrDispatched, searchTimers>>
  /\ UNCHANGED jobVars
  /\ UNCHANGED playlistVars
  /\ UNCHANGED logVars

\* fetch rejects
AddMovieSearchFails(r) ==
  /\ r \in radarrRequests
  /\ radarrRequests' = radarrRequests \ {r}
  /\ addMovie' = IF r.token # addMovie.searchToken
                   THEN addMovie
                   ELSE [addMovie EXCEPT !.results = 0, !.loading = FALSE]
  /\ UNCHANGED <<youtubeSearch, youtubeRequests, radarrDispatched, searchTimers>>
  /\ UNCHANGED jobVars
  /\ UNCHANGED playlistVars
  /\ UNCHANGED logVars

NextSearch ==
  \/ \E immediate \in BOOLEAN : \E query \in QueryKinds : scheduleYouTubeSearch(immediate, query)
  \/ \E t \in searchTimers : YouTubeSearchTimerFires(t)
  \/ \E r \in youtubeRequests : \E ok \in BOOLEAN : YouTubeFetchResolves(r, ok)
  \/ \E r \in youtubeRequests : YouTubeFetchRejects(r)
  \/ \E r \in youtubeRequests : YouTubeJsonResolves(r)
  \/ \E r \in youtubeRequests : YouTubeJsonRejects(r)
  \/ handleYouTubeUrlInputChange
  \/ \E query \in QueryKinds : openAddMovieModal(query)
  \/ closeAddMovieModal
  \/ \E immediate \in BOOLEAN : \E query \in QueryKinds : scheduleAddMovieSearch(immediate, query)
  \/ \E t \in searchTimers : AddMovieSearchTimerFires(t)
  \/ \E r \in radarrRequests : \E ok \in BOOLEAN : AddMovieSearchResponse(r, ok)
  \/ \E r \in radarrRequests : AddMovieSearchFails(r)

SpecSearch == Init /\ [][NextSearch]_vars

\* ------------------------------------------------------- console and logs
ForcedTypes == {"", "muted", "error", "warning"}

\* log lines a backend can send
LogLines == SeqsUpTo(LogTokens, MaxLineLen)

ConsoleTokens == {" ", "ERROR:", "DEBUG:", "x"}

ConsoleLines == SeqsUpTo(ConsoleTokens, MaxConsoleLineLen)

\* one line goes through the filter and the classifier
ClassifyLine ==
  /\ ~classified.done
  /\ classified' = [classified EXCEPT
                      !.done = TRUE,
                      !.shown = shouldDisplayLogLine(classified.line),
                      !.result = interpretLogLine(classified.line, classified.forcedType)]
  /\ UNCHANGED <<debugMode, lastLogs, consoleDiv>>
  /\ UNCHANGED jobVars
  /\ UNCHANGED playlistVars
  /\ UNCHANGED searchVars
  /\ UNCHANGED playlistVars

\* a response carries a log array: renderLogLines(lines)
RenderLogs(lines) ==
  /\ lastLogs' = lines
  /\ consoleDiv' = renderLogLines(lines, debugMode)
  /\ lastOp' = Did("renderLogLines", 0, FALSE, <<>>, "", World)
  /\ UNCHANGED <<debugMode, classified>>
  /\ UNCHANGED <<hasDownloadsList, downloads, pollers, timers, pendingCancellations,
                 selectedJobId, activeConsoleJobId, cards, pollRequests,
                 createRequests, loadPc, cancelRequests, backendJobs, now>>
  /\ UNCHANGED searchVars
  /\ UNCHANGED playlistVars

\* a setDebugMode that never renders
setDebugModeKeepsConsole(enabled) ==
  /\ debugMode' = enabled
  /\ lastOp' = Did("setDebugMode", 0, FALSE, <<>>,
                   IF debugMode # enabled /\ lastLogs # <<>> THEN "rendered" ELSE "", World)
  /\ UNCHANGED <<lastLogs, consoleDiv, classified>>
  /\ UNCHANGED <<hasDownloadsList, downloads, pollers, timers, pendingCancellations,
                 selectedJobId, activeConsoleJobId, cards, pollRequests,
                 createRequests, loadPc, cancelRequests, backendJobs, now>>
  /\ UNCHANGED searchVars
  /\ UNCHANGED playlistVars

\* setDebugMode(enabled): a change renders state.lastLogs again
setDebugMode(enabled) ==
  /\ debugMode' = enabled
  /\ consoleDiv' = IF debugMode # enabled /\ lastLogs # <<>>
                     THEN renderLogLines(lastLogs, enabled) ELSE consoleDiv
  /\ lastOp' = Did("setDebugMode", 0, FALSE, <<>>,
                   IF debugMode # enabled /\ lastLogs # <<>> THEN "rendered" ELSE "", World)
  /\ UNCHANGED <<lastLogs, classified>>
  /\ UNCHANGED <<hasDownloadsList, downloads, pollers, timers, pendingCancellations,
                 selectedJobId, activeConsoleJobId, cards, pollRequests,
                 createRequests, loadPc, cancelRequests, backendJobs, now>>
  /\ UNCHANGED searchVars
  /\ UNCHANGED playlistVars

\* the classifier applied to every line and forced type within the bounds
InitClassify ==
  /\ InitPage
  /\ classified \in {Unclassified(line, forcedType) :
                       line \in LogLines, forcedType \in ForcedTypes}

NextClassify == ClassifyLine

SpecClassify == InitClassify /\ [][NextClassify]_vars

NextConsole ==
  \/ \E lines \in SeqsUpTo(ConsoleLines, MaxLogLines) : RenderLogs(lines)
  \/ \E enabled \in BOOLEAN : setDebugMode(enabled)

SpecConsole == Init /\ [][NextConsole]_vars

\* ------------------------------------------------------------------ claims
TimersOf(id) == {t \in timers : t.job = id}

\* C1: after any sequence of upsertDownload calls the store holds at most
\* MAX_DOWNLOAD_ENTRIES (8) records.
C1_StoreWithinCapacity == Len(downloads) <= MAX_DOWNLOAD_ENTRIES

\* C9: whenever upsertDownload truncates the store, every surviving record's
\* startedAt is greater than or equal to that of every evicted record.
C9_EvictsOldest ==
  \A i \in 1..Len(lastOp.evicted) : \A j \in 1..Len(downloads) :
    downloads[j].startedAt >= lastOp.evicted[i].startedAt

C9_Witness ==
  /\ lastOp.evicted # <<>>
  /\ Len(downloads) = MAX_DOWNLOAD_ENTRIES
  /\ \E j \in 1..Len(downloads) : downloads[j].startedAt > lastOp.evicted[1].startedAt

\* C10: whenever upsertDownload evicts records for capacity, no evicted id has
\* a timer, a poller-map entry or a pending-cancellation flag after the call.
C10_EvictedHaveNoPoller ==
  \A i \in 1..Len(lastOp.evicted) :
    /\ lastOp.evicted[i].id \notin DOMAIN pollers
    /\ TimersOf(lastOp.evicted[i].id) = {}
    /\ lastOp.evicted[i].id \notin pendingCancellations

StartedAtOf(dl, id) == dl[IndexOf(dl, id)].startedAt

\* C2: across upsertDownload calls sharing a job id the stored startedAt stays
\* the value of the first insert; no later merge overwrites it.
C2_StartedAtPinned ==
  [][\A id \in 1..MaxJobs :
       (InStore(downloads, id) /\ InStore(downloads', id))
         => StartedAtOf(downloads', id) = StartedAtOf(downloads, id)]_vars

\* C3: at most one interval timer exists per job id, whatever the sequence of
\* startJobPolling and stopJobPolling calls and poll outcomes.
C3_OneTimerPerJob ==
  \A id \in 1..MaxJobs : Cardinality(TimersOf(id)) <= 1

C3_Witness ==
  /\ lastOp.op = "create"
  /\ lastOp.note = "already"
  /\ Cardinality(TimersOf(lastOp.id)) = 1

\* a tick-driven GET /jobs/{id} leaves in this step
TickRequestFor(id) ==
  /\ Len(pollRequests') = Len(pollRequests) + 1
  /\ pollRequests'[Len(pollRequests')].origin = "tick"
  /\ pollRequests'[Len(pollRequests')].job = id

\* C4: once stopJobPolling(id) has run, no tick-driven GET /jobs/{id} leaves
\* until startJobPolling(id) runs again: a tick request is only ever issued
\* for an id that is in the poller map.
C4_NoTickAfterStop ==
  [][\A id \in 1..MaxJobs : TickRequestFor(id) => id \in DOMAIN pollers]_vars

C4_Witness ==
  /\ lastOp.stopped # {}
  /\ \A id \in lastOp.stopped : TimersOf(id) = {} /\ id \notin DOMAIN pollers

\* C5: when pollJob has merged a snapshot whose normalised status is terminal,
\* the poller of that id is stopped by the end of the same callback.
C5_TerminalPollStops ==
  (/\ lastOp.op = "poll"
   /\ lastOp.note \in RawStatuses
   /\ normaliseStatus(lastOp.note) \notin CANCELLABLE_STATUSES)
    => (lastOp.id \notin DOMAIN pollers /\ TimersOf(lastOp.id) = {})

C5_Witness ==
  /\ lastOp.op = "poll"
  /\ lastOp.note = "completed"
  /\ lastOp.id \in lastOp.stopped
  /\ InStore(downloads, lastOp.id)
  /\ downloads[IndexOf(downloads, lastOp.id)].status = "complete"

\* C8: from the moment cancelJob(id) is invoked on a queued or processing job,
\* id is in the pending-cancellation set.
C8_CancelMarksPending ==
  lastOp.op = "cancelJob" => lastOp.id \in pendingCancellations

\* C6: youtubeSearch.results is written only by the response to the request
\* that holds the current token; a response whose token was superseded before
\* it is handled never changes the result list.
C6_OnlyLatestVideoResponseWrites ==
  [][(youtubeSearch'.results # youtubeSearch.results /\ youtubeSearch'.results # 0)
       => youtubeSearch'.results = youtubeSearch.token]_vars

\* C7: addMovie.results is written only by the response to the most recently
\* dispatched /radarr/search request; the response of any earlier request is
\* discarded.
C7_OnlyLatestCatalogResponseWrites ==
  [][(addMovie'.results # addMovie.results /\ addMovie'.results # 0)
       => addMovie'.results = radarrDispatched]_vars

\* ---- the console and the classifier
MutedLine(words) == [text |-> <<words>>, type |-> "muted"]

\* C14: renderLogLines never leaves the console empty and never shows a
\* filtered-out line: an empty array gives one muted 'No output yet.' line, a
\* non-empty array filtered out entirely with debug off gives one muted
\* 'Verbose output hidden' line, otherwise the console holds exactly the
\* retained lines (the last one first).
C14_ConsoleShowsRetainedLines ==
  [][(consoleDiv' # consoleDiv \/ lastLogs' # lastLogs)
       => LET kept == SelectSeq(lastLogs', LAMBDA line : debugMode' \/ shouldDisplayLogLine(line))
              n == Len(kept)
          IN /\ consoleDiv' # <<>>
             /\ lastLogs' = <<>> => consoleDiv' = <<MutedLine("No output yet.")>>
             /\ (lastLogs' # <<>> /\ n = 0) => consoleDiv' = <<MutedLine("Verbose output hidden.")>>
             /\ n > 0 => /\ Len(consoleDiv') = n
                         /\ \A k \in 1..n : consoleDiv'[k] = interpretLogLine(kept[n + 1 - k], "")]_vars

C14_Witness ==
  /\ Len(lastLogs) = MaxLogLines
  /\ ~debugMode
  /\ consoleDiv = <<MutedLine("Verbose output hidden.")>>

\* the category the prefix tests give a trimmed line, first match first
CategoryByPrefix(trimmed) ==
  IF PrefixMatches(trimmed, "error:") THEN "error"
  ELSE IF PrefixMatches(trimmed, "warning:") THEN "warning"
  ELSE IF PrefixMatches(trimmed, "debug:") THEN "debug"
  ELSE IF startsWith(trimmed, "[download]") THEN "progress"
  ELSE IF startsWith(trimmed, "[ffmpeg]") THEN "ffmpeg"
  ELSE "info"

\* C15 as stated: with no forced category the first matching prefix decides
\* the category; an ERROR: line's text is the remainder ('Error' when empty);
\* for progress, ffmpeg and info lines the text is the input line unchanged.
C15_InterpretKeepsLine ==
  (classified.done /\ classified.forcedType = "")
    => LET trimmed == trim(classified.line)
           r == classified.result
       IN /\ r.type = CategoryByPrefix(trimmed)
          /\ r.type = "error" =>
               r.text = IF AfterPrefix(trimmed) = <<>> THEN <<"Error">> ELSE AfterPrefix(trimmed)
          /\ r.type \in {"progress", "ffmpeg", "info"} => r.text = classified.line

\* C15 amended: as above, but for progress and ffmpeg lines the text is the
\* input line with its surrounding whitespace trimmed; for info lines it is
\* the input line unchanged.
C15_InterpretTrimsProgress ==
  (classified.done /\ classified.forcedType = "")
    => LET trimmed == trim(classified.line)
           r == classified.result
       IN /\ r.type = CategoryByPrefix(trimmed)
          /\ r.type = "error" =>
               r.text = IF AfterPrefix(trimmed) = <<>> THEN <<"Error">> ELSE AfterPrefix(trimmed)
          /\ r.type \in {"progress", "ffmpeg"} => r.text = trimmed
          /\ r.type = "info" => r.text = classified.line

C15_Witness ==
  /\ classified.done
  /\ classified.forcedType = ""
  /\ classified.result.type = "progress"
  /\ classified.result.text # classified.line

\* C16: with debug mode off shouldDisplayLogLine drops blank and DEBUG: lines,
\* keeps ERROR: lines and lines starting with [download], [ffmpeg] or
\* [merger], keeps a WARNING: line exactly when it has no noisy snippet, and
\* keeps any other line exactly when it has an important snippet (prefixes
\* and snippets compared without regard to case).
C16_DisplayRules ==
  classified.done
    => LET lowered == toLowerCase(trim(classified.line))
           noisy == \E snippet \in NOISY_WARNING_SNIPPETS : includes(lowered, snippet)
           important == \E snippet \in IMPORTANT_LINE_SNIPPETS : includes(lowered, snippet)
           tool == \E tok \in {"[download]", "[ffmpeg]", "[merger]"} : startsWith(lowered, tok)
       IN /\ lowered = <<>> => ~classified.shown
          /\ startsWith(lowered, "debug:") => ~classified.shown
          /\ startsWith(lowered, "error:") => classified.shown
          /\ tool => classified.shown
          /\ startsWith(lowered, "warning:") => (classified.shown <=> ~noisy)
          /\ (/\ lowered # <<>>
              /\ ~tool
              /\ \A tok \in {"debug:", "error:", "warning:"} : ~startsWith(lowered, tok))
               => (classified.shown <=> important)

C16_Witness ==
  /\ classified.done
  /\ startsWith(toLowerCase(trim(classified.line)), "warning:")
  /\ includes(toLowerCase(classified.line), "[youtube]")
  /\ ~classified.shown

\* the line the catch block of pollJob leaves in the console
PollErrorShown == [text |-> <<"Failed to poll job">>, type |-> "error"]

\* C12: when a poll request fails in transport (fetch rejects, a non-2xx
\* status, invalid JSON), pollJob appends exactly one error line and the job
\* has no poller and no timer afterwards, so nothing asks again.
C12_PollFailureStops ==
  (lastOp.op = "poll" /\ lastOp.note = "error")
    => /\ lastOp.lines = <<PollErrorShown>>
       /\ lastOp.id \notin DOMAIN pollers
       /\ TimersOf(lastOp.id) = {}

C12_Witness ==
  /\ lastOp.op = "poll"
  /\ lastOp.note = "error"
  /\ lastOp.stopped = {lastOp.id}
  /\ lastOp.lines = <<PollErrorShown>>

\* C13: a successful poll response without a job record stops the poller,
\* clears the console attachment and the selection when they point at the id,
\* leaves the store alone and appends no 'Failed to poll' line.
C13_NotFoundIsQuiet ==
  (lastOp.op = "poll" /\ lastOp.note = "notfound")
    => /\ lastOp.id \notin DOMAIN pollers
       /\ activeConsoleJobId # lastOp.id
       /\ selectedJobId # lastOp.id
       /\ \A i \in 1..Len(lastOp.lines) : lastOp.lines[i] # PollErrorShown

\* C20: the tokens of both search flows (youtubeSearch.token and
\* addMovie.searchToken) never decrease: no step, opening or closing the
\* add-movie modal included, lowers or resets either of them.
C20_TokensNeverDecrease ==
  [][/\ youtubeSearch'.token >= youtubeSearch.token
     /\ addMovie'.searchToken >= addMovie.searchToken]_vars

\* the rules of the form a submission fails
FailedRules(form) ==
  (IF form.yturl = "" THEN {"url empty"} ELSE {})
  \cup (IF form.yturl = "example.com/v" THEN {"url pattern"} ELSE {})
  \cup (IF form.movieId = "" THEN {"movie"} ELSE {})
  \cup (IF form.extra /\ form.extra_name = "" THEN {"extra name"} ELSE {})

ErrorLinesOf(lines) == {i \in 1..Len(lines) : lines[i].type = "error"}

\* C18: a submit that fails client validation (empty URL, URL that is not a
\* YouTube URL, empty movieId, extra checked without an extra name) sends no
\* POST /create, inserts nothing in the store and starts no poller, and the
\* console gets one error line for each rule that failed.
C18_InvalidSubmitSendsNothing ==
  [][\A form \in Forms :
       (FailedRules(form) # {} /\ Submit(form))
         => /\ createRequests' = createRequests
            /\ downloads' = downloads
            /\ pollers' = pollers
            /\ timers' = timers
            /\ pollRequests' = pollRequests
            /\ Cardinality(ErrorLinesOf(lastOp'.lines)) = Cardinality(FailedRules(form))]_vars

C18_Witness ==
  /\ lastOp.op = "submit"
  /\ lastOp.note = "invalid"
  /\ Cardinality(ErrorLinesOf(lastOp.lines)) = 3
  /\ createRequests = 0
  /\ downloads # <<>>

UpdatedAtOf(dl, id) == dl[IndexOf(dl, id)].updatedAt

\* C11: across successive upsertDownload merges for one id the stored
\* updatedAt never decreases, whatever updated_at the backend supplies and in
\* whatever order the snapshots arrive.
C11_UpdatedAtNeverDecreases ==
  [][\A id \in 1..MaxJobs :
       (InStore(downloads, id) /\ InStore(downloads', id))
         => UpdatedAtOf(downloads', id) >= UpdatedAtOf(downloads, id)]_vars

EntryOf(dl, id) == dl[IndexOf(dl, id)]

\* C17: after a valid submit whose POST /create returns job 1 queued, the
\* store holds job 1 as queued and its poller runs; a poll answered with
\* processing and progress 40 sets the stored progress to 40 and leaves
\* startedAt as it was; a poll answered with complete and progress 100 leaves
\* no poller and no timer for job 1, so no further poll is made.
C17_SubmitToCompletion ==
  [][/\ (\E job \in FlowJobs({1}, {"queued"}) : CreateResponse(job))
          => /\ InStore(downloads', 1)
             /\ EntryOf(downloads', 1).status = "queued"
             /\ 1 \in DOMAIN pollers'
     /\ \A k \in 1..Len(pollRequests) :
          \A job \in FlowJobs({1}, {"processing", "complete"}) :
            (InStore(downloads, 1) /\ PollJobResponse(k, job))
              => /\ (job.status = "processing" /\ job.progress = [isNumber |-> TRUE, value |-> 40])
                      => /\ EntryOf(downloads', 1).progress = 40
                         /\ EntryOf(downloads', 1).startedAt = EntryOf(downloads, 1).startedAt
                 /\ (job.status = "complete" /\ job.progress = [isNumber |-> TRUE, value |-> 100])
                      => /\ 1 \notin DOMAIN pollers'
                         /\ {t \in timers' : t.job = 1} = {}]_vars

\* the last handler merged a snapshot of lastOp.id into the store
MergedSnapshot ==
  /\ lastOp.op \in {"create", "poll"}
  /\ lastOp.id # 0
  /\ lastOp.op = "poll" => lastOp.note \in RawStatuses
  /\ InStore(downloads, lastOp.id)

C21_StoreSortedByStartedAt ==
  \A i \in 1..Len(downloads) : \A j \in 1..Len(downloads) :
    i < j => downloads[i].startedAt >= downloads[j].startedAt

ConsoleOf(snapshot, debug) ==
  LET kept == SelectSeq(snapshot, LAMBDA line : debug \/ shouldDisplayLogLine(line))
      n == Len(kept)
  IN IF n = 0 THEN <<MutedLine("Verbose output hidden.")>>
     ELSE [k \in 1..n |-> interpretLogLine(kept[n + 1 - k], "")]

\* C24: setDebugMode(v) with v different from the current mode and a
\* non-empty last-seen snapshot renders the console from that snapshot under
\* the new mode, issues no network request and leaves the snapshot as it is;
\* setDebugMode with the current mode leaves the console unchanged.
C24_DebugToggleRerenders ==
  [][\A v \in BOOLEAN :
       setDebugMode(v)
         => /\ lastLogs' = lastLogs
            /\ pollRequests' = pollRequests
            /\ createRequests' = createRequests
            /\ cancelRequests' = cancelRequests
            /\ youtubeRequests' = youtubeRequests
            /\ radarrRequests' = radarrRequests
            /\ (v # debugMode /\ lastLogs # <<>>) => consoleDiv' = ConsoleOf(lastLogs, v)
            /\ v = debugMode => consoleDiv' = consoleDiv]_vars

C24_Witness ==
  /\ lastOp.op = "setDebugMode"
  /\ lastOp.note = "rendered"
  /\ debugMode
  /\ Len(lastLogs) = MaxLogLines
  /\ \A i \in 1..Len(lastLogs) : ~shouldDisplayLogLine(lastLogs[i])
  /\ Len(consoleDiv) = MaxLogLines

\* C25: a second startJobPolling call for an id that is already polling, made
\* with console display requested (the submit handler's call), upgrades the
\* poller's show-console flag: from then on its ticks ask with console
\* display, even if the poller was first started without it.
C25_SecondStartUpgradesConsole ==
  (lastOp.op = "create" /\ lastOp.note = "already")
    => \A t \in TimersOf(lastOp.id) : t.showConsole

\* C26: whenever no video-search request is outstanding (every dispatched
\* request has completed, failed or been superseded), youtubeSearch.loading
\* is false, which is when the search button is enabled.
C26_NoRequestNoLoading ==
  youtubeRequests = {} => ~youtubeSearch.loading

\* the line renderLogLines shows for 'ERROR: Job not found or has expired.'
NotFoundShown == [text |-> <<"Job not found or has expired.">>, type |-> "error"]

\* C27: the line 'Job not found or has expired.' is written to the console
\* only when the console is attached to that job id at the moment the
\* not-found response is handled; a not-found response for a job the operator
\* has navigated away from never overwrites the console.
C27_NotFoundOnlyWhenAttached ==
  [][\A k \in 1..Len(pollRequests) :
       (/\ PollNotFoundResponse(k)
        /\ \E i \in 1..Len(lastOp'.lines) : lastOp'.lines[i] = NotFoundShown)
         => activeConsoleJobId = pollRequests[k].job]_vars

\* the requests in flight that a poller issued for a job: the one of
\* startJobPolling and those of its timer
PollerRequestsOf(id) ==
  {k \in 1..Len(pollRequests) :
     pollRequests[k].job = id /\ pollRequests[k].origin \in {"start", "tick"}}

\* C28: at most one poller-issued GET /jobs/{id} request is in flight per job
\* id: while a tick's request has not resolved, the next tick for that id is
\* delayed rather than issued in parallel.
C28_OnePollInFlightPerJob ==
  \A id \in 1..MaxJobs : Cardinality(PollerRequestsOf(id)) <= 1

\* C29: at the end of every callback turn the rendered job list reflects the
\* current state: there is one card per record, in store order, showing the
\* record's current status, with its cancel control disabled exactly when
\* the id is pending cancellation.
C29_ListReflectsStore ==
  hasDownloadsList
    => /\ Len(cards) = Len(downloads)
       /\ \A i \in 1..Len(downloads) : cards[i] = CardOf(downloads[i], pendingCancellations)

EvictedIds == {lastOp.evicted[i].id : i \in 1..Len(lastOp.evicted)}

\* C30: a record leaves the store only through capacity eviction inside
\* upsertDownload: whenever an id is in the store before a step and not
\* after it, the step was an upsert that truncated the store to
\* MAX_DOWNLOAD_ENTRIES and the id is among the records it spliced off; a poll
\* failure, a not-found response, a cancel and a terminal status remove none.
C30_OnlyEvictionRemoves ==
  [][\A id \in 1..MaxStoreJobs :
       (InStore(downloads, id) /\ ~InStore(downloads', id))
         => /\ lastOp'.op \in {"create", "poll", "load"}
            /\ lastOp'.note \notin {"error", "notfound"}
            /\ id \in EvictedIds'
            /\ Len(downloads') = MAX_DOWNLOAD_ENTRIES]_vars

C30_Witness ==
  /\ lastOp.op = "poll"
  /\ lastOp.note \in {"error", "notfound"}
  /\ InStore(downloads, lastOp.id)
  /\ Len(downloads) = MAX_DOWNLOAD_ENTRIES
  /\ backendJobs > MAX_DOWNLOAD_ENTRIES

\* ---- debounce timers of the two search flows
SearchFlows == {"youtube", "radarr"}

C32_ShortQueryKeepsResultsEmpty ==
  [][(addMovie.modalOpen /\ addMovie.query = "" /\ addMovie.results = 0
        /\ radarrDispatched' = radarrDispatched)
       => addMovie'.results = 0]_vars

\* ---- arrival order of poll responses
TerminalStatuses == {"complete", "failed", "cancelled"}

\* C33: poll responses are merged in arrival order with no sequence guard: the
\* snapshot of whichever response arrives is what the record shows afterwards,
\* whatever the record showed before and whichever request it answers.
C33_SnapshotsMergedInArrivalOrder ==
  [][\A k \in 1..Len(pollRequests) :
       \A job \in Jobs({pollRequests[k].job}, RawStatuses, StartStamps) :
         (PollJobResponseTraced(k, job, TRUE) /\ InStore(downloads', job.id))
           => StatusOf(downloads', job.id) = normaliseStatus(job.status)]_vars

\* the answer to the first request of a poller arrived after the answer to a
\* tick's request had made the record terminal and stopped the poller: the
\* record is back to a non-terminal status and nothing polls it
C33_Witness ==
  /\ lastOp.op = "poll"
  /\ lastOp.origin = "start"
  /\ lastOp.before \in TerminalStatuses
  /\ StatusOf(downloads, lastOp.id) \in {"queued", "processing"}
  /\ lastOp.id \notin DOMAIN pollers
  /\ TimersOf(lastOp.id) = {}

\* ---- records built from whatever a response carries
\* statuses a response can carry: missing, known, the alias, unknown words
WildStatuses == {"", "queued", "complete", "completed", "paused", "constructor"}

\* progress a response can carry: no number, below the range, inside, above
WildProgress ==
  {[isNumber |-> FALSE, value |-> 0], [isNumber |-> TRUE, value |-> 0 - 5],
   [isNumber |-> TRUE, value |-> 40], [isNumber |-> TRUE, value |-> 150]}

WildJobs(ids) ==
  [id : ids, status : WildStatuses, started_at : {0}, updated_at : {0},
   progress : WildProgress]

NextBackend ==
  \/ \E jobs \in SeqsUpTo(WildJobs({1}), 1) : LoadInitialJobs(jobs)
  \/ LoadInitialJobsFails
  \/ \E form \in ValidForms : Submit(form)
  \/ \E job \in WildJobs({backendJobs + 1} \cap (1..MaxJobs)) : CreateResponse(job)
  \/ \E t \in timers : Tick(t)
  \/ \E k \in 1..Len(pollRequests) :
       \E job \in WildJobs({pollRequests[k].job}) : PollJobResponse(k, job)

SpecBackend == Init /\ [][NextBackend]_vars

\* C34: every record of the store has a status among queued, processing,
\* complete, failed, cancelled and a progress between 0 and 100, whatever the
\* responses carry.
C34_RecordsNormalised ==
  \A i \in 1..Len(downloads) :
    /\ downloads[i].status \in STATUS_LABELS
    /\ downloads[i].progress >= 0
    /\ downloads[i].progress <= 100

\* C35: the store never holds two records with the same id, for any
\* interleaving of load, create, poll and cancel handling.
C35_OneRecordPerId ==
  \A i \in 1..Len(downloads) : \A j \in 1..Len(downloads) :
    downloads[i].id = downloads[j].id => i = j

\* a poll response was merged into the record its job already had, next to
\* the record of another job
C35_Witness ==
  /\ lastOp.op = "poll"
  /\ lastOp.note = "processing"
  /\ StatusOf(downloads, lastOp.id) = "processing"
  /\ Len(downloads) = MaxJobs

C37_PendingSetOperationsComplete ==
  (lastOp.op \in {"load", "create", "poll", "cancelJob"} /\ lastOp.note # "error")
    => ~lastOp.threw

\* ---- pollers and the console against the store
\* C38: at the end of every callback turn every job with an active poller or
\* a running interval timer has a record in the store.
C38_PollersHaveRecords ==
  /\ \A id \in DOMAIN pollers : InStore(downloads, id)
  /\ \A t \in timers : InStore(downloads, t.job)

\* start stamps of the jobs of a full store: the first two jobs report 1 or 2,
\* the later ones 3, so that an early job can be listed and then evicted
AttachStamps(id) == IF id <= 2 THEN {1, 2} ELSE {3}

NextAttach ==
  \/ \E form \in ValidForms : Submit(form)
  \/ \E job \in Jobs({backendJobs + 1} \cap (1..MaxStoreJobs), StoreStatuses,
                      AttachStamps(backendJobs + 1)) :
       CreateResponse(job)
  \/ \E id \in 1..MaxStoreJobs : activateDownloadItem(id)

SpecAttach == Init /\ [][NextAttach]_vars

\* C39: at the end of every callback turn activeConsoleJobId is null, or it
\* equals selectedJobId and is the id of a record of the store.
C39_ConsoleAttachedToStoredJob ==
  activeConsoleJobId # 0
    => (activeConsoleJobId = selectedJobId /\ InStore(downloads, activeConsoleJobId))

\* -------------------------------------------------------- playlist preview
PlaylistModes == {"single", "extras"}

\* what the URL box can hold: nothing, one playlist, another
PlaylistUrls == {"", "list A", "list B"}

PlaylistUrlRequiredLine == <<"ERROR:", " ", "Enter a YouTube playlist URL to load entries.">>

PlaylistErrorLine == <<"ERROR:", " ", "errorMessage">>

PlaylistFailedLine == <<"ERROR:", " ", "Failed to load playlist">>

\* clearPlaylistEntries: entries, loading flag and error box are reset, the
\* fetch button is enabled
clearPlaylistEntries(pl) ==
  [pl EXCEPT !.entries = 0, !.loading = FALSE, !.error = FALSE]

\* a playlist handler ran; the job state is left alone
PlaylistDid(note, w) ==
  /\ lastOp' = Did("playlist", 0, FALSE, <<>>, note, w)
  /\ UNCHANGED <<hasDownloadsList, downloads, pollers, timers, pendingCancellations,
                 selectedJobId, activeConsoleJobId, cards, pollRequests,
                 createRequests, loadPc, cancelRequests, backendJobs, now>>
  /\ UNCHANGED <<youtubeSearch, youtubeRequests, addMovie, radarrRequests,
                 radarrDispatched, searchTimers>>
  /\ UNCHANGED <<debugMode, lastLogs, consoleDiv, classified>>

\* the operator picks a playlist mode
SetPlaylistMode(mode) ==
  /\ mode # playlist.mode
  /\ playlist' = [playlist EXCEPT !.mode = mode]
  /\ UNCHANGED <<playlistRequests, playlistSent>>
  /\ PlaylistDid("mode", World)

\* the click listener of playlistFetchButton and fetchPlaylistPreview up to
\* its await
PlaylistFetchClick ==
  /\ ~playlist.loading
  /\ IF playlist.mode # "extras"
       THEN /\ UNCHANGED <<playlist, playlistRequests, playlistSent>>
            /\ PlaylistDid("not extras", World)
     ELSE IF playlist.url = ""
       THEN /\ playlist' = [playlist EXCEPT !.error = TRUE]
            /\ UNCHANGED <<playlistRequests, playlistSent>>
            /\ PlaylistDid("no url", Say(World, PlaylistUrlRequiredLine, "error"))
     ELSE /\ playlistSent < MaxPlaylistRequests
          /\ playlist' = [playlist EXCEPT !.loading = TRUE, !.error = FALSE]
          /\ playlistRequests' = playlistRequests \cup
                                   {[uid |-> playlistSent + 1, url |-> playlist.url]}
          /\ playlistSent' = playlistSent + 1
          /\ PlaylistDid("sent", World)

\* the response arrives: entries stored when it is ok, cleared otherwise, then
\* the finally block
PlaylistResponse(r, ok, count) ==
  /\ r \in playlistRequests
  /\ playlistRequests' = playlistRequests \ {r}
  /\ UNCHANGED playlistSent
  /\ IF ok
       THEN /\ playlist' = [playlist EXCEPT !.entries = count, !.loading = FALSE,
                                            !.error = IF count = 0 THEN FALSE ELSE @]
            /\ PlaylistDid("entries", World)
       ELSE /\ playlist' = [clearPlaylistEntries(playlist) EXCEPT !.loading = FALSE]
            /\ PlaylistDid("refused", Say(World, PlaylistErrorLine, "error"))

\* fetch rejects: the catch block, then the finally block
PlaylistFetchRejects(r) ==
  /\ r \in playlistRequests
  /\ playlistRequests' = playlistRequests \ {r}
  /\ UNCHANGED playlistSent
  /\ playlist' = [clearPlaylistEntries(playlist) EXCEPT !.loading = FALSE]
  /\ PlaylistDid("failed", Say(World, PlaylistFailedLine, "error"))

\* the click listener of playlistClearButton, which shows while there are entries
PlaylistClearClick ==
  /\ playlist.entries > 0
  /\ playlist' = clearPlaylistEntries(playlist)
  /\ UNCHANGED <<playlistRequests, playlistSent>>
  /\ PlaylistDid("clear", World)

\* the change listener of the URL box
PlaylistUrlChange(url) ==
  /\ url # playlist.url
  /\ playlist' = IF playlist.entries > 0
                   THEN [clearPlaylistEntries(playlist) EXCEPT !.url = url]
                   ELSE [playlist EXCEPT !.url = url]
  /\ UNCHANGED <<playlistRequests, playlistSent>>
  /\ PlaylistDid("url", World)

NextPlaylist ==
  \/ \E mode \in PlaylistModes : SetPlaylistMode(mode)
  \/ PlaylistFetchClick
  \/ \E r \in playlistRequests : \E ok \in BOOLEAN : \E count \in 0..MaxPlaylistEntries :
       PlaylistResponse(r, ok, count)
  \/ \E r \in playlistRequests : PlaylistFetchRejects(r)
  \/ PlaylistClearClick
  \/ \E url \in PlaylistUrls : PlaylistUrlChange(url)

SpecPlaylist == Init /\ [][NextPlaylist]_vars

\* C40: at most one /playlist_preview request is in flight at any time, for
\* any interleaving of load clicks, clear clicks, URL changes and responses.
C40_OnePreviewInFlight ==
  Cardinality(playlistRequests) <= 1
====
